---- MODULE Spec2Model ----
(***************************************************************************)
(* Model of the release scripts of polaris-trade/libs:                     *)
(*   scripts/bump-version.py       (commit analysis, version bump, CLI)    *)
(*   scripts/generate-changelog.py (categorisation, rendering, insertion)  *)
(*                                                                         *)
(* Text is modelled as a sequence of one-character strings, so that the    *)
(* regular expressions, the splits and the slices of the scripts are       *)
(* computed position by position, as Python computes them.                 *)
(***************************************************************************)
EXTENDS Integers, Sequences, FiniteSets, Bags, TLC

VARIABLES
    pc,          \* position in the flow being run
    version,     \* bump_version: the version argument (text)
    bump_type,   \* bump_version: the bump_type argument
    result,      \* bump_version: what the call produced (a value or an exception)
    semver,      \* the SemanticVersion the version text was written from, if any
    history,     \* the commits of the range, as the repository holds them (newest first)
    git_ok,      \* whether `git log` exits with status 0
    commits,     \* bump-version.py: the list get_commits_since_tag returned
    analysis,    \* bump-version.py: (bump_type, breakdown) of analyze_commits
    cl_commits,  \* generate-changelog.py: the list get_commits_since_tag returned
    categories,  \* generate-changelog.py: the buckets of categorize_commits
    args,        \* bump-version.py main: the parsed command line
    crate_dir,   \* whether the directory root/<crate> exists
    manifest,    \* the Cargo.toml of the run: whether it exists, and its text
    exit_code,   \* the status the process ended with, -1 while it runs
    report,      \* the "Version Change" block printed, if any
    writes,      \* the calls of update_cargo_version that wrote Cargo.toml, in order
    cl_version,  \* generate-changelog.py: the --version argument
    today,       \* generate-changelog.py: the date of the run, as %Y-%m-%d
    new_section, \* generate-changelog.py: the section generate_changelog_section returned
    changelog,   \* the CHANGELOG.md of the run: whether it exists, and its text
    updates      \* the calls of update_changelog, in order: what was read and written

versionVars == <<version, bump_type, result, semver>>
commitVars == <<history, git_ok, commits, analysis, cl_commits, categories>>
mainVars == <<args, crate_dir, manifest, exit_code, report, writes>>
docVars == <<cl_version, today, new_section, changelog, updates>>
vars == <<pc, versionVars, commitVars, mainVars, docVars>>

(***************************************************************************)
(* Bounds of the model.                                                    *)
(***************************************************************************)
MaxNum == 11        \* version components range over 0..MaxNum
MaxVerLen == 5      \* arbitrary version texts have at most this many characters
MaxCommits == 3     \* histories drawn from the pool have at most this many commits
MaxMainCommits == 2 \* histories of the command-line runs have at most this many commits
MaxDocLines == 3    \* changelog documents have at most this many lines
MaxUpdates == 2     \* update_changelog is called at most this many times on a file

(***************************************************************************)
(* Characters and text.                                                    *)
(***************************************************************************)
NL == "\n"

Digits == <<"0", "1", "2", "3", "4", "5", "6", "7", "8", "9">>

UpperLetters == <<"A", "B", "C", "D", "E", "F", "G", "H", "I", "J", "K", "L", "M",
                  "N", "O", "P", "Q", "R", "S", "T", "U", "V", "W", "X", "Y", "Z">>

LowerLetters == <<"a", "b", "c", "d", "e", "f", "g", "h", "i", "j", "k", "l", "m",
                  "n", "o", "p", "q", "r", "s", "t", "u", "v", "w", "x", "y", "z">>

DigitSet == {Digits[i] : i \in 1..10}

UpperSet == {UpperLetters[i] : i \in 1..26}

LowerSet == {LowerLetters[i] : i \in 1..26}

\* the value of a decimal digit
DigitValue == [c \in DigitSet |-> (CHOOSE i \in 1..10 : Digits[i] = c) - 1]

\* the lower-case letter of an upper-case letter
Folded == [c \in UpperSet |-> LowerLetters[CHOOSE i \in 1..26 : UpperLetters[i] = c]]

IsDigit(c) == c \in DigitSet

DigitVal(c) == DigitValue[c]

IsUpper(c) == c \in UpperSet

IsLower(c) == c \in LowerSet

\* re.IGNORECASE compares letters with their case folded
Lower(c) == IF c \in UpperSet THEN Folded[c] ELSE c

\* \w of the re module
WordSet == UpperSet \cup LowerSet \cup DigitSet \cup {"_"}

IsWord(c) == c \in WordSet

\* the whitespace of str.strip() and of \s, among the characters of the model
SpaceSet == {" ", "\t", NL}

IsSpace(c) == c \in SpaceSet

\* s[a:b] of Python for 0 <= a, with TLA+ positions: the characters a+1 .. b
Slice(s, a, b) == IF b <= a THEN <<>> ELSE SubSeq(s, a + 1, IF b > Len(s) THEN Len(s) ELSE b)

\* s.startswith(p)
StartsWith(s, p) == Len(s) >= Len(p) /\ SubSeq(s, 1, Len(p)) = p

\* p occurs in s at position i (1-based), letters compared as written
OccursAt(s, p, i) == i + Len(p) - 1 <= Len(s) /\ SubSeq(s, i, i + Len(p) - 1) = p

\* p in s
Contains(s, p) == \E i \in 1..(Len(s) + 1) : OccursAt(s, p, i)

\* p occurs in s at position i under re.IGNORECASE
OccursAtIgnoreCase(s, p, i) ==
    /\ i + Len(p) - 1 <= Len(s)
    /\ \A k \in 1..Len(p) : Lower(s[i + k - 1]) = Lower(p[k])

RECURSIVE Concat(_)
\* ''.join(parts)
Concat(parts) == IF parts = <<>> THEN <<>> ELSE Head(parts) \o Concat(Tail(parts))

RECURSIVE Join(_, _)
\* sep.join(parts)
Join(sep, parts) ==
    IF parts = <<>> THEN <<>>
    ELSE IF Len(parts) = 1 THEN parts[1]
    ELSE parts[1] \o sep \o Join(sep, Tail(parts))

RECURSIVE Split(_, _)
\* s.split(c) for a one-character separator c: always at least one part
Split(s, c) ==
    IF \A i \in 1..Len(s) : s[i] # c THEN <<s>>
    ELSE LET i == CHOOSE k \in 1..Len(s) : s[k] = c /\ \A j \in 1..(k - 1) : s[j] # c
         IN <<SubSeq(s, 1, i - 1)>> \o Split(SubSeq(s, i + 1, Len(s)), c)

RECURSIVE LStrip(_)
LStrip(s) == IF s # <<>> /\ IsSpace(Head(s)) THEN LStrip(Tail(s)) ELSE s

RECURSIVE RStrip(_)
RStrip(s) == IF s # <<>> /\ IsSpace(s[Len(s)]) THEN RStrip(SubSeq(s, 1, Len(s) - 1)) ELSE s

\* s.strip()
Strip(s) == RStrip(LStrip(s))

\* the last position of the longest run of characters of class that starts
\* at position p of s; p - 1 when the run is empty (a greedy X+ or X*)
RunEnd(s, p, class) ==
    LET stops == {q \in p..Len(s) : s[q] \notin class}
    IN IF stops = {} THEN (IF p > Len(s) THEN p - 1 ELSE Len(s))
       ELSE (CHOOSE q \in stops : \A r \in stops : q <= r) - 1

\* the same for the characters other than c (a greedy [^c]+)
RunEndNot(s, p, c) ==
    LET stops == {q \in p..Len(s) : s[q] = c}
    IN IF stops = {} THEN (IF p > Len(s) THEN p - 1 ELSE Len(s))
       ELSE (CHOOSE q \in stops : \A r \in stops : q <= r) - 1

RECURSIVE IntOf(_)
\* int(digits)
IntOf(ds) == IF ds = <<>> THEN 0 ELSE 10 * IntOf(SubSeq(ds, 1, Len(ds) - 1)) + DigitVal(ds[Len(ds)])

RECURSIVE StrOf(_)
\* str(n) for n >= 0, as an f-string formats it
StrOf(n) == IF n < 10 THEN <<Digits[n + 1]>> ELSE StrOf(n \div 10) \o <<Digits[(n % 10) + 1]>>

(***************************************************************************)
(* bump-version.py: parse_version and bump_version.                        *)
(***************************************************************************)
BumpLevels == {"major", "minor", "patch", "none"}

Dot == <<".">>

\* parse_version with the patch group optional: (\d+)\.(\d+)(?:\.(\d+))?
parse_version_patch_optional(version_str) ==
    LET p1 == IF version_str # <<>> /\ version_str[1] = "v" THEN 2 ELSE 1
        e1 == RunEnd(version_str, p1, DigitSet)
        e2 == RunEnd(version_str, e1 + 2, DigitSet)
        e3 == RunEnd(version_str, e2 + 2, DigitSet)
        matched == /\ e1 >= p1
                   /\ e1 + 1 <= Len(version_str) /\ version_str[e1 + 1] = "."
                   /\ e2 >= e1 + 2
        patched == /\ e2 + 1 <= Len(version_str) /\ version_str[e2 + 1] = "."
                   /\ e3 >= e2 + 2
    IN IF ~matched
       THEN [ok |-> FALSE, exception |-> "ValueError",
             message |-> "Invalid version format: ", arg |-> version_str]
       ELSE [ok |-> TRUE,
             major |-> IntOf(SubSeq(version_str, p1, e1)),
             minor |-> IntOf(SubSeq(version_str, e1 + 2, e2)),
             patch |-> IF patched THEN IntOf(SubSeq(version_str, e2 + 2, e3)) ELSE 0]

\* re.match(r'v?(\d+)\.(\d+)\.(\d+)', version_str): a ValueError carrying the
\* string when there is no match, else the three integers
parse_version(version_str) ==
    LET p1 == IF version_str # <<>> /\ version_str[1] = "v" THEN 2 ELSE 1
        e1 == RunEnd(version_str, p1, DigitSet)
        e2 == RunEnd(version_str, e1 + 2, DigitSet)
        e3 == RunEnd(version_str, e2 + 2, DigitSet)
        matched == /\ e1 >= p1
                   /\ e1 + 1 <= Len(version_str) /\ version_str[e1 + 1] = "."
                   /\ e2 >= e1 + 2
                   /\ e2 + 1 <= Len(version_str) /\ version_str[e2 + 1] = "."
                   /\ e3 >= e2 + 2
    IN IF ~matched
       THEN [ok |-> FALSE, exception |-> "ValueError",
             message |-> "Invalid version format: ", arg |-> version_str]
       ELSE [ok |-> TRUE,
             major |-> IntOf(SubSeq(version_str, p1, e1)),
             minor |-> IntOf(SubSeq(version_str, e1 + 2, e2)),
             patch |-> IntOf(SubSeq(version_str, e2 + 2, e3))]

\* bump_version with a minor bump that keeps the patch number
bump_version_keeps_patch(version_str, level) ==
    LET v == parse_version(version_str)
    IN IF ~v.ok THEN v
       ELSE [ok |-> TRUE, value |->
               IF level = "major" THEN StrOf(v.major + 1) \o Dot \o <<"0">> \o Dot \o <<"0">>
               ELSE IF level = "minor" THEN StrOf(v.major) \o Dot \o StrOf(v.minor + 1) \o Dot \o StrOf(v.patch)
               ELSE IF level = "patch" THEN StrOf(v.major) \o Dot \o StrOf(v.minor) \o Dot \o StrOf(v.patch + 1)
               ELSE StrOf(v.major) \o Dot \o StrOf(v.minor) \o Dot \o StrOf(v.patch)]

\* the exception of parse_version propagates; else the new version as text
bump_version(version_str, level) ==
    LET v == parse_version(version_str)
    IN IF ~v.ok THEN v
       ELSE [ok |-> TRUE, value |->
               IF level = "major" THEN StrOf(v.major + 1) \o Dot \o <<"0">> \o Dot \o <<"0">>
               ELSE IF level = "minor" THEN StrOf(v.major) \o Dot \o StrOf(v.minor + 1) \o Dot \o <<"0">>
               ELSE IF level = "patch" THEN StrOf(v.major) \o Dot \o StrOf(v.minor) \o Dot \o StrOf(v.patch + 1)
               ELSE StrOf(v.major) \o Dot \o StrOf(v.minor) \o Dot \o StrOf(v.patch)]

(***************************************************************************)
(* The version texts bump_version is applied to.                           *)
(***************************************************************************)
NoResult == [ok |-> FALSE, exception |-> "not called"]

NoSemver == [valid |-> FALSE]

VersionPrefixes == {<<>>, <<"v">>}

\* pre-release and build metadata
VersionSuffixes == {<<>>, <<"-", "r", "c", ".", "1">>, <<"+", "b", "7">>}

SemVers ==
    [valid : {TRUE}, prefix : VersionPrefixes, major : 0..MaxNum, minor : 0..MaxNum,
     patch : 0..MaxNum, zero_padded : BOOLEAN, suffix : VersionSuffixes]

\* how a manifest or a tag writes the version
VersionText(sv) ==
    sv.prefix \o StrOf(sv.major) \o Dot
              \o (IF sv.zero_padded THEN <<"0">> ELSE <<>>) \o StrOf(sv.minor) \o Dot
              \o StrOf(sv.patch) \o sv.suffix

VersionAlphabet == {"v", "1", ".", "x"}

RECURSIVE TextsUpTo(_, _)
\* every text of at most n characters of alphabet
TextsUpTo(alphabet, n) ==
    IF n = 0 THEN {<<>>}
    ELSE LET shorter == TextsUpTo(alphabet, n - 1)
         IN shorter \cup {Append(t, c) : t \in shorter, c \in alphabet}

NotAVersion == <<"n", "o", "t", "-", "a", "-", "v", "e", "r", "s", "i", "o", "n">>

ArbitraryVersionTexts ==
    TextsUpTo(VersionAlphabet, MaxVerLen)
        \cup {NotAVersion, <<"V", "1", ".", "2", ".", "3">>, <<" ", "1", ".", "2", ".", "3">>,
              <<"1", ".", "2", ".", "-", "3">>, <<"1", ",", "2", ",", "3">>}

\* the variables of the commit flows, when no commit flow runs
CommitsIdle ==
    /\ history = <<>>
    /\ git_ok = TRUE
    /\ commits = <<>>
    /\ analysis = [bump_type |-> "none", breakdown |-> <<>>]
    /\ cl_commits = <<>>
    /\ categories = <<>>

NoArgs == [crate |-> <<>>, workspace |-> FALSE, apply |-> FALSE, bump |-> "unset"]

NoReport == [printed |-> FALSE]

\* the variables of the command-line run, when none runs
MainIdle ==
    /\ args = NoArgs
    /\ crate_dir = FALSE
    /\ manifest = [exists |-> FALSE, content |-> <<>>]
    /\ exit_code = -1
    /\ report = NoReport
    /\ writes = <<>>

NoFile == [exists |-> FALSE, content |-> <<>>]

\* the variables of the changelog document, when no section is generated
DocIdle ==
    /\ cl_version = <<>>
    /\ today = <<>>
    /\ new_section = <<>>
    /\ changelog = NoFile
    /\ updates = <<>>

(***************************************************************************)
(* Specification SpecVersion: bump_version applied to one version text.    *)
(***************************************************************************)
InitVersion ==
    /\ pc = "call_bump_version"
    /\ bump_type \in BumpLevels
    /\ result = NoResult
    /\ \/ \E sv \in SemVers : semver = sv /\ version = VersionText(sv)
       \/ semver = NoSemver /\ version \in ArbitraryVersionTexts
    /\ CommitsIdle
    /\ MainIdle
    /\ DocIdle

CallBumpVersion ==
    /\ pc = "call_bump_version"
    /\ result' = bump_version(version, bump_type)
    /\ pc' = "returned"
    /\ UNCHANGED <<version, bump_type, semver, commitVars, mainVars, docVars>>

NextVersion == CallBumpVersion

SpecVersion == InitVersion /\ [][NextVersion]_vars

(***************************************************************************)
(* The regular expressions of the two classifiers.                         *)
(***************************************************************************)
\* (?:\([^)]+\))? tried at position p: the position after the group when it
\* matches there, else p itself (the group is skipped)
AfterScope(s, p) ==
    LET e == RunEndNot(s, p + 1, ")")
    IN IF /\ p <= Len(s) /\ s[p] = "("
          /\ e >= p + 1
          /\ e + 1 <= Len(s) /\ s[e + 1] = ")"
       THEN e + 2
       ELSE p

\* re.match(r'^<kw>(?:\([^)]+\))?:', s, re.IGNORECASE)
TypePrefixMatch(s, kw) ==
    /\ OccursAtIgnoreCase(s, kw, 1)
    /\ LET q == AfterScope(s, Len(kw) + 1)
       IN q <= Len(s) /\ s[q] = ":"

BreakingChangeColon == <<"B", "R", "E", "A", "K", "I", "N", "G", " ", "C", "H", "A", "N", "G", "E", ":">>

BreakingChange == <<"B", "R", "E", "A", "K", "I", "N", "G", " ", "C", "H", "A", "N", "G", "E">>

\* re.search(r'^(\w+)(?:\([^)]+\))?!:|BREAKING CHANGE:', s, re.IGNORECASE)
BreakingPatternSearch(s) ==
    \/ LET w == RunEnd(s, 1, WordSet)
           q == AfterScope(s, w + 1)
       IN /\ w >= 1
          /\ q + 1 <= Len(s)
          /\ s[q] = "!"
          /\ s[q + 1] = ":"
    \/ \E i \in 1..Len(s) : OccursAtIgnoreCase(s, BreakingChangeColon, i)

Feat == <<"f", "e", "a", "t">>
Fix == <<"f", "i", "x">>
Perf == <<"p", "e", "r", "f">>
Refactor == <<"r", "e", "f", "a", "c", "t", "o", "r">>
Docs == <<"d", "o", "c", "s">>
Test == <<"t", "e", "s", "t">>
Build == <<"b", "u", "i", "l", "d">>
Ci == <<"c", "i">>
Chore == <<"c", "h", "o", "r", "e">>

(***************************************************************************)
(* bump-version.py: get_commits_since_tag and analyze_commits.             *)
(***************************************************************************)
\* what `git log --pretty=format:%s` prints for the commits of the range:
\* the subjects, one per line
GitLogSubjects(hist) == Join(<<NL>>, [i \in 1..Len(hist) |-> hist[i].subject])

RECURSIVE StrippedNonBlank(_)
\* [line.strip() for line in lines if line.strip()]
StrippedNonBlank(lines) ==
    IF lines = <<>> THEN <<>>
    ELSE (IF Strip(Head(lines)) # <<>> THEN <<Strip(Head(lines))>> ELSE <<>>)
             \o StrippedNonBlank(Tail(lines))

\* get_commits_since_tag without check=True: the output is parsed whatever
\* the status of git
bump_get_commits_since_tag_unchecked(hist, ok) ==
    StrippedNonBlank(Split(GitLogSubjects(hist), NL))

\* the commit subjects since the tag; [] when git fails
bump_get_commits_since_tag(hist, ok) ==
    IF ~ok THEN <<>> ELSE StrippedNonBlank(Split(GitLogSubjects(hist), NL))

EmptyBreakdown == [breaking |-> <<>>, features |-> <<>>, fixes |-> <<>>, others |-> <<>>]

\* one turn of the loop of analyze_commits
analyze_one(acc, commit) ==
    IF BreakingPatternSearch(commit) THEN [acc EXCEPT !.breaking = Append(@, commit)]
    ELSE IF TypePrefixMatch(commit, Feat) THEN [acc EXCEPT !.features = Append(@, commit)]
    ELSE IF TypePrefixMatch(commit, Fix) THEN [acc EXCEPT !.fixes = Append(@, commit)]
    ELSE [acc EXCEPT !.others = Append(@, commit)]

RECURSIVE analyze_loop(_, _)
analyze_loop(acc, cs) ==
    IF cs = <<>> THEN acc ELSE analyze_loop(analyze_one(acc, Head(cs)), Tail(cs))

\* bump_type_of with the features looked at before the breaking changes
bump_type_of_features_first(breakdown) ==
    IF breakdown.features # <<>> THEN "minor"
    ELSE IF breakdown.breaking # <<>> THEN "major"
    ELSE IF breakdown.fixes # <<>> THEN "patch"
    ELSE "none"

\* the bump type of a breakdown
bump_type_of(breakdown) ==
    IF breakdown.breaking # <<>> THEN "major"
    ELSE IF breakdown.features # <<>> THEN "minor"
    ELSE IF breakdown.fixes # <<>> THEN "patch"
    ELSE "none"

analyze_commits(cs) ==
    LET b == analyze_loop(EmptyBreakdown, cs)
    IN [bump_type |-> bump_type_of(b), breakdown |-> b]

(***************************************************************************)
(* generate-changelog.py: get_commits_since_tag and categorize_commits.    *)
(***************************************************************************)
Bar == "|"

\* what `git log --pretty=format:%H|%an|%ai|%s|%b` prints for the commits
GitLogFull(hist) ==
    Join(<<NL>>, [i \in 1..Len(hist) |->
        hist[i].hash \o <<Bar>> \o hist[i].author \o <<Bar>> \o hist[i].date \o <<Bar>>
            \o hist[i].subject \o <<Bar>> \o hist[i].body])

RECURSIVE SplitMax(_, _, _)
\* s.split(c, maxsplit)
SplitMax(s, c, maxsplit) ==
    IF maxsplit = 0 \/ \A i \in 1..Len(s) : s[i] # c THEN <<s>>
    ELSE LET i == CHOOSE k \in 1..Len(s) : s[k] = c /\ \A j \in 1..(k - 1) : s[j] # c
         IN <<SubSeq(s, 1, i - 1)>> \o SplitMax(SubSeq(s, i + 1, Len(s)), c, maxsplit - 1)

HashLen == 7

DateLen == 10

MaxSplit == 4

RECURSIVE ParseLogLines(_)
\* the loop over the lines of the output: blank lines and lines with fewer
\* than four fields are skipped
ParseLogLines(lines) ==
    IF lines = <<>> THEN <<>>
    ELSE LET line == Head(lines)
             parts == SplitMax(line, Bar, MaxSplit)
         IN (IF Strip(line) # <<>> /\ Len(parts) >= 4
             THEN <<[hash |-> Slice(parts[1], 0, HashLen),
                     author |-> parts[2],
                     date |-> Slice(parts[3], 0, DateLen),
                     subject |-> parts[4],
                     body |-> IF Len(parts) > 4 THEN parts[5] ELSE <<>>]>>
             ELSE <<>>) \o ParseLogLines(Tail(lines))

\* the commit records since the tag; [] when git fails
changelog_get_commits_since_tag(hist, ok) ==
    IF ~ok THEN <<>> ELSE ParseLogLines(Split(GitLogFull(hist), NL))

CategoryNames ==
    <<"breaking", "features", "fixes", "performance", "refactor", "docs", "tests",
      "build", "ci", "chore", "other">>

EmptyCategories == [c \in {CategoryNames[i] : i \in 1..Len(CategoryNames)} |-> <<>>]

\* category_of with the feature and fix rules tried before the breaking rule
category_of_breaking_late(commit) ==
    IF TypePrefixMatch(commit.subject, Feat) THEN "features"
    ELSE IF TypePrefixMatch(commit.subject, Fix) THEN "fixes"
    ELSE IF BreakingPatternSearch(commit.subject) \/ Contains(commit.body, BreakingChange)
        THEN "breaking"
    ELSE IF TypePrefixMatch(commit.subject, Perf) THEN "performance"
    ELSE IF TypePrefixMatch(commit.subject, Refactor) THEN "refactor"
    ELSE IF TypePrefixMatch(commit.subject, Docs) THEN "docs"
    ELSE IF TypePrefixMatch(commit.subject, Test) THEN "tests"
    ELSE IF TypePrefixMatch(commit.subject, Build) THEN "build"
    ELSE IF TypePrefixMatch(commit.subject, Ci) THEN "ci"
    ELSE IF TypePrefixMatch(commit.subject, Chore) THEN "chore"
    ELSE "other"

\* the if/elif chain of categorize_commits: the bucket the commit goes to
category_of(commit) ==
    IF BreakingPatternSearch(commit.subject) \/ Contains(commit.body, BreakingChange)
        THEN "breaking"
    ELSE IF TypePrefixMatch(commit.subject, Feat) THEN "features"
    ELSE IF TypePrefixMatch(commit.subject, Fix) THEN "fixes"
    ELSE IF TypePrefixMatch(commit.subject, Perf) THEN "performance"
    ELSE IF TypePrefixMatch(commit.subject, Refactor) THEN "refactor"
    ELSE IF TypePrefixMatch(commit.subject, Docs) THEN "docs"
    ELSE IF TypePrefixMatch(commit.subject, Test) THEN "tests"
    ELSE IF TypePrefixMatch(commit.subject, Build) THEN "build"
    ELSE IF TypePrefixMatch(commit.subject, Ci) THEN "ci"
    ELSE IF TypePrefixMatch(commit.subject, Chore) THEN "chore"
    ELSE "other"

\* categorize_one with `if` for `elif` after the breaking rule: a breaking
\* commit is appended to the breaking bucket and to the bucket of its type
categorize_one_if_for_elif(acc, commit) ==
    LET typed == category_of_breaking_late([commit EXCEPT !.body = <<>>])
        other == IF typed = "breaking" THEN "other" ELSE typed
    IN IF category_of(commit) = "breaking"
       THEN [acc EXCEPT !.breaking = Append(@, commit), ![other] = Append(@, commit)]
       ELSE [acc EXCEPT ![category_of(commit)] = Append(@, commit)]

\* one turn of the loop of categorize_commits
categorize_one(acc, commit) == [acc EXCEPT ![category_of(commit)] = Append(@, commit)]

RECURSIVE categorize_loop(_, _)
categorize_loop(acc, cs) ==
    IF cs = <<>> THEN acc ELSE categorize_loop(categorize_one(acc, Head(cs)), Tail(cs))

categorize_commits(cs) == categorize_loop(EmptyCategories, cs)

(***************************************************************************)
(* generate-changelog.py: format_commit_line and                           *)
(* generate_changelog_section.                                             *)
(***************************************************************************)
\* re.sub(r'^(\w+)(?:\([^)]+\))?:\s*', '', subject)
StripTypePrefix(subject) ==
    LET w == RunEnd(subject, 1, WordSet)
        q == AfterScope(subject, w + 1)
    IN IF w >= 1 /\ q <= Len(subject) /\ subject[q] = ":"
       THEN SubSeq(subject, RunEnd(subject, q + 1, SpaceSet) + 1, Len(subject))
       ELSE subject

format_commit_line(commit) ==
    <<"-", " ">> \o StripTypePrefix(commit.subject) \o <<" ", "(", "[">> \o commit.hash
        \o <<"]", "(", ".", ".", "/", ".", ".", "/", "c", "o", "m", "m", "i", "t", "/">> \o commit.hash \o <<")", ")">>

\* section_map, in its order: the category and its title; the icon that
\* starts a title is one element of the text
SectionMap ==
    << <<"breaking", <<"icon_breaking">> \o <<" ", "B", "r", "e", "a", "k", "i", "n", "g", " ", "C", "h", "a", "n", "g", "e", "s">>>>,
       <<"features", <<"icon_features">> \o <<" ", "F", "e", "a", "t", "u", "r", "e", "s">>>>,
       <<"fixes", <<"icon_fixes">> \o <<" ", "B", "u", "g", " ", "F", "i", "x", "e", "s">>>>,
       <<"performance", <<"icon_performance">> \o <<" ", "P", "e", "r", "f", "o", "r", "m", "a", "n", "c", "e">>>>,
       <<"refactor", <<"icon_refactor">> \o <<" ", "R", "e", "f", "a", "c", "t", "o", "r", "i", "n", "g">>>>,
       <<"docs", <<"icon_docs">> \o <<" ", "D", "o", "c", "u", "m", "e", "n", "t", "a", "t", "i", "o", "n">>>>,
       <<"tests", <<"icon_tests">> \o <<" ", "T", "e", "s", "t", "s">>>>,
       <<"build", <<"icon_build">> \o <<" ", "B", "u", "i", "l", "d", " ", "S", "y", "s", "t", "e", "m">>>>,
       <<"ci", <<"icon_ci">> \o <<" ", "C", "I", "/", "C", "D">>>> >>

\* subsection without the test of line 170: the title is written for an
\* empty bucket too
subsection_of_any_bucket(entry, cats) ==
    <<"#", "#", "#", " ">> \o entry[2] \o <<NL, NL>>
        \o Concat([i \in 1..Len(cats[entry[1]]) |->
                      format_commit_line(cats[entry[1]][i]) \o <<NL>>])
        \o <<NL>>

\* lines 169-173: the subsection of one entry of section_map
subsection(entry, cats) ==
    IF cats[entry[1]] = <<>> THEN <<>>
    ELSE <<"#", "#", "#", " ">> \o entry[2] \o <<NL, NL>>
            \o Concat([i \in 1..Len(cats[entry[1]]) |->
                          format_commit_line(cats[entry[1]][i]) \o <<NL>>])
            \o <<NL>>

generate_changelog_section(ver, date, cats) ==
    <<"#", "#", " ", "[">> \o ver \o <<"]", " ", "-", " ">> \o date \o <<NL, NL>>
        \o Concat([k \in 1..Len(SectionMap) |-> subsection(SectionMap[k], cats)])

(***************************************************************************)
(* The histories the two scripts are run on.                               *)
(***************************************************************************)
Author == <<"a", "l">>

\* %ai: date, time and zone; the changelog keeps the first DateLen characters
AuthorDate == <<"2", "0", "2", "6", "-", "0", "1", "-", "0", "2", " ", "1", "0", ":", "0", "0">>

Commit(hash, subject, body) ==
    [hash |-> hash, author |-> Author, date |-> AuthorDate, subject |-> subject, body |-> body]

\* one commit of every category, with hashes longer than HashLen
CommitPool ==
    { Commit(<<"1", "a", "b", "c", "d", "e", "f", "0">>, <<"f", "e", "a", "t", ":", " ", "a">>, <<>>),
      Commit(<<"2", "a", "b", "c", "d", "e", "f", "0">>, <<"f", "i", "x", "(", "c", "o", "r", "e", ")", ":", " ", "b">>, <<>>),
      Commit(<<"3", "a", "b", "c", "d", "e", "f", "0">>, <<"f", "e", "a", "t", "!", ":", " ", "d", "r", "o", "p", " ", "f", "i", "e", "l", "d">>, <<>>),
      Commit(<<"4", "a", "b", "c", "d", "e", "f", "0">>, <<"c", "h", "o", "r", "e", ":", " ", "u", "p", "d", "a", "t", "e", " ", "d", "e", "p", "s">>, <<"B", "R", "E", "A", "K", "I", "N", "G", " ", "C", "H", "A", "N", "G", "E", ":", " ", "r", "e", "m", "o", "v", "e", "d", " ", "X">>),
      Commit(<<"5", "a", "b", "c", "d", "e", "f", "0">>, <<"p", "e", "r", "f", ":", " ", "c">>, <<>>),
      Commit(<<"6", "a", "b", "c", "d", "e", "f", "0">>, <<"r", "e", "f", "a", "c", "t", "o", "r", "(", "x", ")", ":", " ", "d">>, <<>>),
      Commit(<<"7", "a", "b", "c", "d", "e", "f", "0">>, <<"d", "o", "c", "s", ":", " ", "e">>, <<>>),
      Commit(<<"8", "a", "b", "c", "d", "e", "f", "0">>, <<"t", "e", "s", "t", ":", " ", "f">>, <<"m", "o", "r", "e", "\n">>),
      Commit(<<"9", "a", "b", "c", "d", "e", "f", "0">>, <<"b", "u", "i", "l", "d", ":", " ", "g">>, <<>>),
      Commit(<<"a", "a", "b", "c", "d", "e", "f", "0">>, <<"c", "i", ":", " ", "h">>, <<>>),
      Commit(<<"b", "a", "b", "c", "d", "e", "f", "0">>, <<"c", "h", "o", "r", "e", ":", " ", "i">>, <<>>),
      Commit(<<"c", "a", "b", "c", "d", "e", "f", "0">>, <<"M", "e", "r", "g", "e", " ", "b", "r", "a", "n", "c", "h", " ", "x">>, <<>>) }

RECURSIVE ListsUpTo(_, _)
\* every list of at most n elements of pool
ListsUpTo(pool, n) ==
    IF n = 0 THEN {<<>>}
    ELSE LET shorter == ListsUpTo(pool, n - 1)
         IN shorter \cup {Append(l, c) : l \in shorter, c \in pool}

\* the parts single subjects are composed of
SubjectTypes ==
    { <<"f", "e", "a", "t">>, <<"F", "E", "A", "T">>, <<"F", "e", "a", "t">>, <<"f", "i", "x">>, <<"F", "I", "X">>, <<"p", "e", "r", "f">>, <<"r", "e", "f", "a", "c", "t", "o", "r">>, <<"d", "o", "c", "s">>,
      <<"t", "e", "s", "t">>, <<"b", "u", "i", "l", "d">>, <<"c", "i">>, <<"c", "h", "o", "r", "e">>, <<"w", "i", "p">>, <<"f", "e", "a", "t", "u", "r", "e">>, <<"m", "y", "-", "t", "y", "p", "e">>, <<>> }

SubjectScopes == { <<>>, <<"(", "x", ")">>, <<"(", ")">>, <<"(", "a", "|", "b", ")">> }

SubjectBangs == { <<>>, <<"!">> }

SubjectColons == { <<>>, <<":">> }

SubjectDescriptions == { <<" ", "a">>, <<" ", "B", "R", "E", "A", "K", "I", "N", "G", " ", "C", "H", "A", "N", "G", "E", ":", " ", "b">>, <<" ", "b", "r", "e", "a", "k", "i", "n", "g", " ", "c", "h", "a", "n", "g", "e", ":", " ", "b">> }

CommitBodies ==
    { <<>>, <<"B", "R", "E", "A", "K", "I", "N", "G", " ", "C", "H", "A", "N", "G", "E", ":", " ", "r", "e", "m", "o", "v", "e", "d", " ", "X">>, <<"n", "o", "t", "e", "\n", "B", "R", "E", "A", "K", "I", "N", "G", " ", "C", "H", "A", "N", "G", "E", ":", " ", "r", "e", "m", "o", "v", "e", "d", " ", "X", "\n">>,
      <<"b", "r", "e", "a", "k", "i", "n", "g", " ", "c", "h", "a", "n", "g", "e">>, <<"s", "e", "e", " ", "B", "R", "E", "A", "K", "I", "N", "G", " ", "C", "H", "A", "N", "G", "E", " ", "b", "e", "l", "o", "w">> }

ComposedCommits ==
    { Commit(<<"d", "a", "b", "c", "d", "e", "f", "0">>, ty \o sc \o bg \o co \o de, bo) :
        ty \in SubjectTypes, sc \in SubjectScopes, bg \in SubjectBangs,
        co \in SubjectColons, de \in SubjectDescriptions, bo \in CommitBodies }

Histories == ListsUpTo(CommitPool, MaxCommits) \cup {<<c>> : c \in ComposedCommits}

\* the --version arguments and the dates of the runs
SectionVersions == { <<"1", ".", "3", ".", "0">>, <<"v", "2", ".", "0", ".", "0", "-", "r", "c", ".", "1">> }

Dates == { <<"2", "0", "2", "6", "-", "1", "1", "-", "0", "3">> }

(***************************************************************************)
(* Specification SpecCommits: both scripts read the same history and       *)
(* classify it.                                                            *)
(***************************************************************************)
VersionIdle ==
    /\ version = <<>>
    /\ bump_type = "none"
    /\ result = NoResult
    /\ semver = NoSemver

InitCommits ==
    /\ pc = "bump_fetch"
    /\ history \in Histories
    /\ git_ok \in BOOLEAN
    /\ commits = <<>>
    /\ analysis = [bump_type |-> "none", breakdown |-> <<>>]
    /\ cl_commits = <<>>
    /\ categories = <<>>
    /\ VersionIdle
    /\ MainIdle
    /\ DocIdle

\* bump-version.py main: commits = get_commits_since_tag(...)
BumpFetch ==
    /\ pc = "bump_fetch"
    /\ commits' = bump_get_commits_since_tag(history, git_ok)
    /\ pc' = "bump_analyze"
    /\ UNCHANGED <<history, git_ok, analysis, cl_commits, categories, versionVars, mainVars, docVars>>

\* bump-version.py main: suggested_bump, breakdown = analyze_commits(commits)
BumpAnalyze ==
    /\ pc = "bump_analyze"
    /\ analysis' = analyze_commits(commits)
    /\ pc' = "changelog_fetch"
    /\ UNCHANGED <<history, git_ok, commits, cl_commits, categories, versionVars, mainVars, docVars>>

\* generate-changelog.py main: commits = get_commits_since_tag(...)
ChangelogFetch ==
    /\ pc = "changelog_fetch"
    /\ cl_commits' = changelog_get_commits_since_tag(history, git_ok)
    /\ pc' = "changelog_categorize"
    /\ UNCHANGED <<history, git_ok, commits, analysis, categories, versionVars, mainVars, docVars>>

\* generate-changelog.py main: categories = categorize_commits(commits)
ChangelogCategorize ==
    /\ pc = "changelog_categorize"
    /\ categories' = categorize_commits(cl_commits)
    /\ pc' = "classified"
    /\ UNCHANGED <<history, git_ok, commits, analysis, cl_commits, versionVars, mainVars, docVars>>

\* generate-changelog.py main: generate_changelog_section(args.version, categories),
\* reached when commits were found
ChangelogGenerate ==
    /\ pc = "classified"
    /\ cl_commits # <<>>
    /\ cl_version' \in SectionVersions
    /\ today' \in Dates
    /\ new_section' = generate_changelog_section(cl_version', today', categories)
    /\ pc' = "generated"
    /\ UNCHANGED <<commitVars, versionVars, mainVars, changelog, updates>>

NextCommits ==
    BumpFetch \/ BumpAnalyze \/ ChangelogFetch \/ ChangelogCategorize \/ ChangelogGenerate

SpecCommits == InitCommits /\ [][NextCommits]_vars

(***************************************************************************)
(* Helpers of the properties.                                              *)
(***************************************************************************)
Range(s) == {s[i] : i \in 1..Len(s)}

InSeq(s, x) == \E i \in 1..Len(s) : s[i] = x

Count(s, x) == Cardinality({i \in 1..Len(s) : s[i] = x})

RECURSIVE IsSubsequence(_, _)
\* b can be obtained from l by deleting elements: b keeps the order of l
IsSubsequence(b, l) ==
    IF b = <<>> THEN TRUE
    ELSE IF l = <<>> THEN FALSE
    ELSE IF Head(b) = Head(l) THEN IsSubsequence(Tail(b), Tail(l))
    ELSE IsSubsequence(b, Tail(l))

\* every reordering of the list l
Reorderings(l) == {[i \in 1..Len(l) |-> l[p[i]]] : p \in Permutations(1..Len(l))}

\* the bucket of the reduced rule set a single subject goes to
BumpClassOf(subject) ==
    LET b == analyze_one(EmptyBreakdown, subject)
    IN IF b.breaking # <<>> THEN "breaking"
       ELSE IF b.features # <<>> THEN "features"
       ELSE IF b.fixes # <<>> THEN "fixes"
       ELSE "others"

\* the bump level a bucket of the reduced rule set asks for
LevelOfClass(class) ==
    CASE class = "breaking" -> "major"
      [] class = "features" -> "minor"
      [] class = "fixes" -> "patch"
      [] OTHER -> "none"

Severity(level) ==
    CASE level = "major" -> 3
      [] level = "minor" -> 2
      [] level = "patch" -> 1
      [] OTHER -> 0

Analyzed == pc = "changelog_fetch"

(***************************************************************************)
(* C1: analyze_commits returns major if at least one commit classifies as  *)
(* breaking, else minor if at least one classifies as feature, else patch  *)
(* if at least one classifies as fix, else none (none for the empty list); *)
(* the result is the same for every reordering of the list and for every   *)
(* duplication of its elements, and appending a commit whose severity is   *)
(* not higher than the result never changes it.                            *)
(***************************************************************************)
C1_BumpIsHighestSeverity ==
    Analyzed =>
        LET has(class) == \E i \in 1..Len(commits) : BumpClassOf(commits[i]) = class
            level == analysis.bump_type
        IN /\ level = (IF has("breaking") THEN "major"
                       ELSE IF has("features") THEN "minor"
                       ELSE IF has("fixes") THEN "patch"
                       ELSE "none")
           /\ \A r \in Reorderings(commits) : analyze_commits(r).bump_type = level
           /\ analyze_commits(commits \o commits).bump_type = level
           /\ \A i \in 1..Len(commits) :
                analyze_commits(Append(commits, commits[i])).bump_type = level
           /\ \A c \in CommitPool :
                Severity(LevelOfClass(BumpClassOf(c.subject))) <= Severity(level)
                    => analyze_commits(Append(commits, c.subject)).bump_type = level

\* a fix, then a feature, then another commit: minor
C1_Witness ==
    /\ Analyzed
    /\ Len(commits) = 3
    /\ BumpClassOf(commits[1]) = "fixes"
    /\ BumpClassOf(commits[2]) = "features"
    /\ BumpClassOf(commits[3]) = "others"
    /\ analysis.bump_type = "minor"

(***************************************************************************)
(* C3: the bump engine and the changelog engine detect breaking changes    *)
(* identically: every commit of the history is in the breaking bucket of   *)
(* analyze_commits if and only if it is in the breaking bucket of          *)
(* categorize_commits.                                                     *)
(***************************************************************************)
C3_SameBreakingDetection ==
    pc = "classified" =>
        \A i \in 1..Len(history) :
            InSeq(analysis.breakdown.breaking, Strip(history[i].subject))
                <=> \E k \in 1..Len(categories.breaking) :
                        categories.breaking[k].hash = Slice(history[i].hash, 0, HashLen)

(***************************************************************************)
(* C4: the rules are tried in a fixed order and the first one that matches *)
(* decides, with the breaking rule first.  A subject that starts with a    *)
(* type (one or more word characters), an optional (scope) and then "!:"   *)
(* is classified breaking by both classifiers, in any letter case, also    *)
(* when the type is feat or fix; a subject with a feat or fix prefix that  *)
(* also carries a breaking marker is classified breaking, not feature or   *)
(* fix; a subject that starts with "feat:" or "feat(scope):" in any letter *)
(* case, with no "BREAKING CHANGE:" in the subject (in any letter case)    *)
(* and no "BREAKING CHANGE" in the body, is classified feature.            *)
(***************************************************************************)
\* positions a..b of s hold a parenthesised, non-empty scope
ScopeIn(s, a, b) ==
    /\ a >= 1 /\ b <= Len(s) /\ b > a + 1
    /\ s[a] = "(" /\ s[b] = ")"
    /\ \A k \in (a + 1)..(b - 1) : s[k] # ")"

TextAt(s, p, t) == p + Len(t) - 1 <= Len(s) /\ \A k \in 1..Len(t) : s[p + k - 1] = t[k]

HasBangPrefix(s) ==
    \E w \in 1..Len(s) :
        /\ \A k \in 1..w : IsWord(s[k])
        /\ \/ TextAt(s, w + 1, <<"!", ":">>)
           \/ \E b \in (w + 1)..Len(s) : ScopeIn(s, w + 1, b) /\ TextAt(s, b + 1, <<"!", ":">>)

HasTypePrefix(s, kw) ==
    /\ Len(s) >= Len(kw) + 1
    /\ \A k \in 1..Len(kw) : Lower(s[k]) = kw[k]
    /\ \/ s[Len(kw) + 1] = ":"
       \/ \E b \in (Len(kw) + 1)..Len(s) : ScopeIn(s, Len(kw) + 1, b) /\ TextAt(s, b + 1, <<":">>)

HasFeatPrefix(s) == HasTypePrefix(s, Feat)

HasFixPrefix(s) == HasTypePrefix(s, Fix)

SubjectMarker(s) == \E i \in 1..Len(s) : OccursAtIgnoreCase(s, BreakingChangeColon, i)

BodyMarker(b) == \E i \in 1..Len(b) : TextAt(b, i, BreakingChange)

C4_BreakingTakesPriority ==
    pc = "classified" =>
        /\ \A i \in 1..Len(commits) :
             /\ (\/ HasBangPrefix(commits[i])
                 \/ /\ HasFeatPrefix(commits[i]) \/ HasFixPrefix(commits[i])
                    /\ SubjectMarker(commits[i])) =>
                    /\ InSeq(analysis.breakdown.breaking, commits[i])
                    /\ ~InSeq(analysis.breakdown.features, commits[i])
                    /\ ~InSeq(analysis.breakdown.fixes, commits[i])
             /\ (HasFeatPrefix(commits[i]) /\ ~SubjectMarker(commits[i])) =>
                    InSeq(analysis.breakdown.features, commits[i])
        /\ \A i \in 1..Len(cl_commits) :
             /\ (\/ HasBangPrefix(cl_commits[i].subject)
                 \/ /\ \/ HasFeatPrefix(cl_commits[i].subject)
                       \/ HasFixPrefix(cl_commits[i].subject)
                    /\ \/ SubjectMarker(cl_commits[i].subject)
                       \/ BodyMarker(cl_commits[i].body)) =>
                    /\ InSeq(categories.breaking, cl_commits[i])
                    /\ ~InSeq(categories.features, cl_commits[i])
                    /\ ~InSeq(categories.fixes, cl_commits[i])
             /\ (/\ HasFeatPrefix(cl_commits[i].subject)
                 /\ ~SubjectMarker(cl_commits[i].subject)
                 /\ ~BodyMarker(cl_commits[i].body)) =>
                    InSeq(categories.features, cl_commits[i])

\* "FIX(x)!: a" is breaking for both classifiers, and a fix for neither
C4_Witness ==
    /\ pc = "classified"
    /\ commits = <<<<"F", "I", "X", "(", "x", ")", "!", ":", " ", "a">>>>
    /\ Len(cl_commits) = 1
    /\ cl_commits[1].subject = commits[1]
    /\ analysis.breakdown.breaking = commits
    /\ analysis.breakdown.fixes = <<>>
    /\ categories.breaking = cl_commits
    /\ categories.fixes = <<>>

(***************************************************************************)
(* C5: the buckets of categorize_commits, and the four buckets of          *)
(* analyze_commits, partition the input list: every occurrence of a commit *)
(* is in exactly one bucket exactly once, no bucket holds a commit that    *)
(* was not in the input, and every bucket keeps the order of the input.    *)
(***************************************************************************)
BucketsPartition(buckets, names, input) ==
    /\ \A n \in names : IsSubsequence(buckets[n], input)
    /\ \A x \in Range(input) \cup UNION {Range(buckets[n]) : n \in names} :
           LET holders == {n \in names : InSeq(buckets[n], x)}
           IN /\ Cardinality(holders) = 1
              /\ \A n \in holders : Count(buckets[n], x) = Count(input, x)

C5_BucketsPartitionInput ==
    pc = "classified" =>
        /\ DOMAIN categories = Range(CategoryNames)
        /\ BucketsPartition(categories, Range(CategoryNames), cl_commits)
        /\ DOMAIN analysis.breakdown = {"breaking", "features", "fixes", "others"}
        /\ BucketsPartition(analysis.breakdown, DOMAIN analysis.breakdown, commits)

\* the same commit twice with another one between them, and a third bucket
C5_Witness ==
    /\ pc = "classified"
    /\ Len(cl_commits) = 3
    /\ cl_commits[1] = cl_commits[3]
    /\ Len(categories.features) = 2
    /\ Len(categories.breaking) = 1
    /\ Len(commits) = 3
    /\ Len(analysis.breakdown.features) = 2

(***************************************************************************)
(* bump-version.py: the manifest (get_current_version and                  *)
(* update_cargo_version).                                                  *)
(***************************************************************************)
Quotes == {"\"", "'"}

VersionKey == <<"v", "e", "r", "s", "i", "o", "n">>

PackageTable == <<"p", "a", "c", "k", "a", "g", "e">>

NoToml == [package |-> FALSE, has_version |-> FALSE, version |-> [string |-> FALSE, text |-> <<>>]]

\* a TOML value: a basic or literal string, or anything else (a boolean, a table)
TomlValue(val) ==
    IF Len(val) >= 2 /\ val[1] \in Quotes /\ val[Len(val)] = val[1]
    THEN [string |-> TRUE, text |-> SubSeq(val, 2, Len(val) - 1)]
    ELSE [string |-> FALSE, text |-> <<>>]

\* one line of the manifest read into the document acc, table being the
\* table the line is in
TomlLine(acc, table, line) ==
    LET l == Strip(line)
        parts == SplitMax(l, "=", 1)
        key == Strip(parts[1])
    IN IF l = <<>> \/ l[1] = "#" THEN acc
       ELSE IF l[1] = "[" THEN
            (IF SubSeq(l, 2, Len(l) - 1) = PackageTable THEN [acc EXCEPT !.package = TRUE] ELSE acc)
       ELSE IF table # PackageTable \/ Len(parts) < 2 THEN acc
       ELSE IF key = VersionKey
            THEN [acc EXCEPT !.has_version = TRUE, !.version = TomlValue(Strip(parts[2]))]
       ELSE IF StartsWith(key, VersionKey \o Dot)
            THEN [acc EXCEPT !.has_version = TRUE, !.version = [string |-> FALSE, text |-> <<>>]]
       ELSE acc

TableAfter(table, line) ==
    LET l == Strip(line)
    IN IF l # <<>> /\ l[1] = "[" THEN SubSeq(l, 2, Len(l) - 1) ELSE table

RECURSIVE TomlLines(_, _, _)
TomlLines(acc, table, lines) ==
    IF lines = <<>> THEN acc
    ELSE TomlLines(TomlLine(acc, table, Head(lines)), TableAfter(table, Head(lines)), Tail(lines))

\* tomllib.load, for the tables and keys the scripts read
TomlLoad(content) == TomlLines(NoToml, <<>>, Split(content, NL))

\* cargo['package']['version'], or the exception raised
get_current_version(m) ==
    IF ~m.exists THEN [ok |-> FALSE, exception |-> "FileNotFoundError"]
    ELSE LET cargo == TomlLoad(m.content)
         IN IF cargo.package /\ cargo.has_version
            THEN [ok |-> TRUE, value |-> cargo.version]
            ELSE [ok |-> FALSE, exception |-> "ValueError", message |-> "No version found in "]

\* a match of (version\s*=\s*["'])<old>(["']) that starts at position i of
\* content: the position of the opening quote, 0 when there is no match at i
VersionMatchAt(content, old, i) ==
    LET a == RunEnd(content, i + Len(VersionKey), SpaceSet) + 1
        b == RunEnd(content, a + 1, SpaceSet) + 1
        c == b + 1 + Len(old)
    IN IF /\ OccursAt(content, VersionKey, i)
          /\ a <= Len(content) /\ content[a] = "="
          /\ b <= Len(content) /\ content[b] \in Quotes
          /\ OccursAt(content, old, b + 1)
          /\ c <= Len(content) /\ content[c] \in Quotes
       THEN b
       ELSE 0

\* re.sub(pattern, r'\g<1><new>\g<2>', content, count=1): the leftmost match
\* is replaced, the content is returned as it is when nothing matches
SubVersion(content, old, new) ==
    LET at == {i \in 1..Len(content) : VersionMatchAt(content, old, i) # 0}
    IN IF at = {} THEN content
       ELSE LET i == CHOOSE k \in at : \A j \in at : k <= j
                b == VersionMatchAt(content, old, i)
            IN SubSeq(content, 1, b) \o new \o SubSeq(content, b + 1 + Len(old), Len(content))

\* the text update_cargo_version writes, or the exception raised
update_cargo_version(m, new_version) ==
    IF ~m.exists THEN [ok |-> FALSE, exception |-> "FileNotFoundError"]
    ELSE IF ~TomlLoad(m.content).package
         THEN [ok |-> FALSE, exception |-> "ValueError", message |-> "No [package] section in "]
    ELSE LET old == get_current_version(m)
         IN IF ~old.ok THEN old
            ELSE IF ~old.value.string THEN [ok |-> FALSE, exception |-> "TypeError"]
            ELSE [ok |-> TRUE, value |-> SubVersion(m.content, old.value.text, new_version)]

(***************************************************************************)
(* The command lines, histories and manifests bump-version.py is run on.   *)
(***************************************************************************)
CrateName == <<"d", "a", "t", "a", "_", "t", "y", "p", "e", "s">>

\* --bump is one of its three choices, or not given
ForcedLevels == {"major", "minor", "patch", "unset"}

ArgsSet ==
    [crate : {<<>>, CrateName}, workspace : BOOLEAN, apply : BOOLEAN, bump : ForcedLevels]

\* a fix, a feature, a breaking change and a commit of no release type
MainPool ==
    { Commit(<<"2", "a", "b", "c", "d", "e", "f", "0">>, <<"f", "i", "x", "(", "c", "o", "r", "e", ")", ":", " ", "b">>, <<>>),
      Commit(<<"1", "a", "b", "c", "d", "e", "f", "0">>, <<"f", "e", "a", "t", ":", " ", "a">>, <<>>),
      Commit(<<"3", "a", "b", "c", "d", "e", "f", "0">>, <<"f", "e", "a", "t", "!", ":", " ", "d", "r", "o", "p", " ", "f", "i", "e", "l", "d">>, <<>>),
      Commit(<<"b", "a", "b", "c", "d", "e", "f", "0">>, <<"c", "h", "o", "r", "e", ":", " ", "i">>, <<>>) }

MainHistories == ListsUpTo(MainPool, MaxMainCommits)

ManifestText(lines) == Join(<<NL>>, lines) \o <<NL>>

PackageHeader == <<"[", "p", "a", "c", "k", "a", "g", "e", "]">>

NameLine == <<"n", "a", "m", "e", " ", "=", " ", "\"", "d", "a", "t", "a", "_", "t", "y", "p", "e", "s", "\"">>

EditionLine == <<"e", "d", "i", "t", "i", "o", "n", " ", "=", " ", "\"", "2", "0", "2", "1", "\"">>

Quoted(q, text) == <<q>> \o text \o <<q>>

\* the versions the manifests of the model carry
ManifestVersions == { <<"1", ".", "2", ".", "3">>, <<"0", ".", "9", ".", "9", "-", "r", "c", ".", "1">>, <<"1", ".", "2">>, NotAVersion }

\* [package] with name, version and edition
TypicalManifest(v) ==
    ManifestText(<<PackageHeader, NameLine, <<"v", "e", "r", "s", "i", "o", "n", " ", "=", " ">> \o Quoted("\"", v), EditionLine>>)

\* the version as a literal string, with no blanks around the sign
CompactManifest(v) ==
    ManifestText(<<PackageHeader, NameLine, <<"v", "e", "r", "s", "i", "o", "n", "=">> \o Quoted("'", v)>>)

\* a rust-version of the same text above the version
RustVersionManifest(v) ==
    ManifestText(<<PackageHeader, NameLine, <<"r", "u", "s", "t", "-", "v", "e", "r", "s", "i", "o", "n", " ", "=", " ">> \o Quoted("\"", v),
                   <<"v", "e", "r", "s", "i", "o", "n", " ", "=", " ">> \o Quoted("\"", v)>>)

\* the version inherited from the workspace
InheritedManifest == ManifestText(<<PackageHeader, NameLine, <<"v", "e", "r", "s", "i", "o", "n", ".", "w", "o", "r", "k", "s", "p", "a", "c", "e", " ", "=", " ", "t", "r", "u", "e">>>>)

NoVersionManifest == ManifestText(<<PackageHeader, NameLine>>)

NoPackageManifest == ManifestText(<<<<"[", "w", "o", "r", "k", "s", "p", "a", "c", "e", "]">>, <<"m", "e", "m", "b", "e", "r", "s", " ", "=", " ", "[", "\"", "d", "a", "t", "a", "_", "t", "y", "p", "e", "s", "\"", "]">>>>)

Manifests ==
    {[exists |-> FALSE, content |-> <<>>]}
        \cup {[exists |-> TRUE, content |-> c] :
                c \in {InheritedManifest, NoVersionManifest, NoPackageManifest}
                        \cup {TypicalManifest(v) : v \in ManifestVersions}
                        \cup {CompactManifest(v) : v \in ManifestVersions}
                        \cup {RustVersionManifest(v) : v \in ManifestVersions}}

(***************************************************************************)
(* Specification SpecBumpMain: one run of bump-version.py.  The history is *)
(* what `git log` lists for the range of the latest tag.                   *)
(***************************************************************************)
InitBumpMain ==
    /\ pc = "main_start"
    /\ args \in ArgsSet
    /\ crate_dir \in BOOLEAN
    /\ (args.crate = <<>> => crate_dir = FALSE)
    /\ manifest \in Manifests
    /\ exit_code = -1
    /\ report = NoReport
    /\ writes = <<>>
    /\ DocIdle
    /\ history \in MainHistories
    /\ git_ok \in BOOLEAN
    /\ commits = <<>>
    /\ analysis = [bump_type |-> "none", breakdown |-> <<>>]
    /\ cl_commits = <<>>
    /\ categories = <<>>
    /\ VersionIdle

Exit(code) == pc' = "exited" /\ exit_code' = code

\* choose_bump_type with the forced level used only when the commits ask for no bump
choose_bump_type_suggested_first(forced, suggested) ==
    IF suggested # "none" THEN suggested ELSE IF forced # "unset" THEN forced ELSE suggested

\* line 270: bump_type = args.bump if args.bump else suggested_bump
choose_bump_type(forced, suggested) == IF forced # "unset" THEN forced ELSE suggested

\* lines 230-260: the usage check, the checks of the crate directory and of
\* its Cargo.toml, and the retrieval of the commits
MainFetch ==
    /\ pc = "main_start"
    /\ IF args.crate = <<>> /\ ~args.workspace
       THEN Exit(1) /\ UNCHANGED commits
       ELSE IF args.crate # <<>> /\ (~crate_dir \/ ~manifest.exists)
       THEN Exit(1) /\ UNCHANGED commits
       ELSE /\ commits' = bump_get_commits_since_tag(history, git_ok)
            /\ pc' = "main_commits"
            /\ UNCHANGED exit_code
    /\ UNCHANGED <<history, git_ok, analysis, cl_commits, categories, versionVars,
                   args, crate_dir, manifest, report, writes, docVars>>

\* lines 262-272: no commits ends the run; else the commits are analysed and
\* the bump type is chosen
MainAnalyze ==
    /\ pc = "main_commits"
    /\ IF commits = <<>>
       THEN Exit(0) /\ UNCHANGED <<analysis, bump_type>>
       ELSE /\ analysis' = analyze_commits(commits)
            /\ bump_type' = choose_bump_type(args.bump, analysis'.bump_type)
            /\ pc' = "main_version"
            /\ UNCHANGED exit_code
    /\ UNCHANGED <<history, git_ok, commits, cl_commits, categories, version, result, semver,
                   args, crate_dir, manifest, report, writes, docVars>>

\* lines 275-303: the try block
MainBump ==
    /\ pc = "main_version"
    /\ LET current == get_current_version(manifest)
           new == IF ~current.ok THEN current
                  ELSE IF ~current.value.string THEN [ok |-> FALSE, exception |-> "TypeError"]
                  ELSE bump_version(current.value.text, bump_type)
           written == IF new.ok THEN update_cargo_version(manifest, new.value) ELSE new
       IN /\ version' = IF current.ok /\ current.value.string THEN current.value.text ELSE <<>>
          /\ result' = new
          /\ IF ~new.ok
             THEN Exit(1) /\ UNCHANGED <<report, manifest, writes>>
             ELSE /\ report' = [printed |-> TRUE, current |-> current.value.text,
                                new |-> new.value, bump |-> bump_type]
                  /\ IF bump_type = "none" \/ ~args.apply
                     THEN Exit(0) /\ UNCHANGED <<manifest, writes>>
                     ELSE IF ~written.ok
                     THEN Exit(1) /\ UNCHANGED <<manifest, writes>>
                     ELSE /\ manifest' = [manifest EXCEPT !.content = written.value]
                          /\ writes' = Append(writes, [new_version |-> new.value,
                                                       content |-> written.value])
                          /\ Exit(0)
    /\ UNCHANGED <<commitVars, bump_type, semver, args, crate_dir, docVars>>

NextBumpMain == MainFetch \/ MainAnalyze \/ MainBump

SpecBumpMain == InitBumpMain /\ [][NextBumpMain]_vars

(***************************************************************************)
(* Specification SpecBump: bump_version called on a version text, or       *)
(* through a run of bump-version.py.                                       *)
(***************************************************************************)
SpecBump == (InitVersion \/ InitBumpMain) /\ [][NextVersion \/ NextBumpMain]_vars

(***************************************************************************)
(* C2: for a version (major, minor, patch), bump_version yields            *)
(* (major+1, 0, 0) for major, (major, minor+1, 0) for minor,               *)
(* (major, minor, patch+1) for patch and (major, minor, patch) for none;   *)
(* a leading "v" and a pre-release or build suffix of the text do not      *)
(* change the triple and are not in the output, which is exactly three     *)
(* runs of digits separated by dots.                                       *)
(***************************************************************************)
ExpectedTriple(sv, level) ==
    CASE level = "major" -> <<sv.major + 1, 0, 0>>
      [] level = "minor" -> <<sv.major, sv.minor + 1, 0>>
      [] level = "patch" -> <<sv.major, sv.minor, sv.patch + 1>>
      [] OTHER -> <<sv.major, sv.minor, sv.patch>>

\* the text is three non-empty runs of digits separated by dots, of these values
ReadsAsTriple(text, triple) ==
    LET parts == Split(text, ".")
    IN /\ Len(parts) = 3
       /\ \A i \in 1..3 :
            /\ parts[i] # <<>>
            /\ \A k \in 1..Len(parts[i]) : IsDigit(parts[i][k])
            /\ IntOf(parts[i]) = triple[i]

C2_BumpVersionTriple ==
    (pc = "returned" /\ semver.valid) =>
        /\ result.ok
        /\ ReadsAsTriple(result.value, ExpectedTriple(semver, bump_type))

\* v9.09.11-rc.1 bumped at minor: 9.10.0
C2_Witness ==
    /\ pc = "returned"
    /\ semver.valid
    /\ semver.prefix = <<"v">>
    /\ semver.suffix # <<>>
    /\ semver.zero_padded
    /\ semver.minor = 9
    /\ semver.patch = 11
    /\ bump_type = "minor"
    /\ result.ok
    /\ result.value = StrOf(semver.major) \o <<".", "1", "0", ".", "0">>

(***************************************************************************)
(* C6 as claimed: with --bump the forced level always wins, for every      *)
(* commit history, the empty one included: the run computes and reports    *)
(* bump_version(current, forced level) and, with --apply, writes it.       *)
(***************************************************************************)
\* the version the manifest carried when the run started
StartVersion ==
    IF writes = <<>> THEN get_current_version(manifest)
    ELSE [ok |-> TRUE, value |-> [string |-> TRUE, text |-> version]]

\* the run gets past the checks of the command line and of the paths, and
\* the manifest carries a version text that parses
RunCanBump ==
    /\ args.crate # <<>> \/ args.workspace
    /\ args.crate # <<>> => crate_dir
    /\ StartVersion.ok
    /\ StartVersion.value.string
    /\ parse_version(StartVersion.value.text).ok

ForcedLevelApplied ==
    LET new == bump_version(StartVersion.value.text, args.bump)
    IN /\ result = new
       /\ bump_type = args.bump
       /\ report.printed
       /\ report.current = StartVersion.value.text
       /\ report.new = new.value
       /\ report.bump = args.bump
       /\ exit_code = 0
       /\ IF args.apply
          THEN Len(writes) = 1 /\ writes[1].new_version = new.value
          ELSE writes = <<>>

DigitsIn(s, a, b) == a <= b /\ b <= Len(s) /\ \A k \in a..b : IsDigit(s[k])

BeginsWithVersion(s) ==
    \E p \in {1, 2} :
        /\ p = 2 => (Len(s) >= 1 /\ s[1] = "v")
        /\ \E a \in p..Len(s) : \E b \in (a + 2)..Len(s) : \E c \in (b + 2)..Len(s) :
              /\ DigitsIn(s, p, a)
              /\ s[a + 1] = "."
              /\ DigitsIn(s, a + 2, b)
              /\ s[b + 1] = "."
              /\ DigitsIn(s, b + 2, c)

IsInvalidVersionFormat(r, text) ==
    /\ ~r.ok
    /\ "value" \notin DOMAIN r
    /\ r.exception = "ValueError"
    /\ r.message = "Invalid version format: "
    /\ r.arg = text

C7_InvalidVersionFormat ==
    /\ (pc = "returned" /\ ~BeginsWithVersion(version)) => IsInvalidVersionFormat(result, version)
    /\ (/\ pc = "exited"
        /\ commits # <<>>
        /\ StartVersion.ok
        /\ StartVersion.value.string
        /\ ~BeginsWithVersion(StartVersion.value.text)) =>
            /\ IsInvalidVersionFormat(result, StartVersion.value.text)
            /\ exit_code = 1
            /\ ~report.printed
            /\ writes = <<>>

\* a manifest with version = "1.2", chores only, no --bump: level none, exit 1
C7_Witness ==
    /\ pc = "exited"
    /\ exit_code = 1
    /\ bump_type = "none"
    /\ args.bump = "unset"
    /\ commits # <<>>
    /\ IsInvalidVersionFormat(result, <<"1", ".", "2">>)

(***************************************************************************)
(* generate-changelog.py: read_existing_changelog and update_changelog.    *)
(***************************************************************************)
\* "" when the file is missing
read_existing_changelog(file) == IF file.exists THEN file.content ELSE <<>>

VersionHeaderAfterNewline == <<"\n", "#", "#", " ", "[">>

\* the index i of the first line with line.strip() and not
\* line.startswith('#'), counted from 0; 0 when there is no such line
header_end_of(lines) ==
    LET found == {i \in 1..Len(lines) : Strip(lines[i]) # <<>> /\ ~StartsWith(lines[i], <<"#">>)}
    IN IF found = {} THEN 0 ELSE (CHOOSE i \in found : \A j \in found : i <= j) - 1

\* a new document, with a shorter preamble, in which the section is written
\* stripped of its surrounding white space
NewChangelog_section_stripped(section) ==
    <<"#", " ", "C", "h", "a", "n", "g", "e", "l", "o", "g", NL, NL>>
        \o <<"#", "#", " ", "[", "U", "n", "r", "e", "l", "e", "a", "s", "e", "d", "]", NL, NL>>
        \o Strip(section) \o <<NL>>

\* lines 209-219: the document written when there is nothing to read
NewChangelog(section) ==
    <<"#", " ", "C", "h", "a", "n", "g", "e", "l", "o", "g", "\n", "\n", "A", "l", "l", " ", "n", "o", "t", "a", "b", "l", "e", " ", "c", "h", "a", "n", "g", "e", "s", " ", "t", "o", " ", "t", "h", "i", "s", " ", "p", "r", "o", "j", "e", "c", "t", " ", "w", "i", "l", "l", " ", "b", "e", " ", "d", "o", "c", "u", "m", "e", "n", "t", "e", "d", " ", "i", "n", " ", "t", "h", "i", "s", " ", "f", "i", "l", "e", ".", "\n", "\n">>
    \o <<"T", "h", "e", " ", "f", "o", "r", "m", "a", "t", " ", "i", "s", " ", "b", "a", "s", "e", "d", " ", "o", "n", " ", "[", "K", "e", "e", "p", " ", "a", " ", "C", "h", "a", "n", "g", "e", "l", "o", "g", "]", "(", "h", "t", "t", "p", "s", ":", "/", "/", "k", "e", "e", "p", "a", "c", "h", "a", "n", "g", "e", "l", "o", "g", ".", "c", "o", "m", "/", "e", "n", "/", "1", ".", "0", ".", "0", "/", ")", ",", "\n">>
    \o <<"a", "n", "d", " ", "t", "h", "i", "s", " ", "p", "r", "o", "j", "e", "c", "t", " ", "a", "d", "h", "e", "r", "e", "s", " ", "t", "o", " ", "[", "S", "e", "m", "a", "n", "t", "i", "c", " ", "V", "e", "r", "s", "i", "o", "n", "i", "n", "g", "]", "(", "h", "t", "t", "p", "s", ":", "/", "/", "s", "e", "m", "v", "e", "r", ".", "o", "r", "g", "/", "s", "p", "e", "c", "/", "v", "2", ".", "0", ".", "0", ".", "h", "t", "m", "l", ")", ".", "\n", "\n">>
    \o <<"#", "#", " ", "[", "U", "n", "r", "e", "l", "e", "a", "s", "e", "d", "]", "\n", "\n">> \o section \o <<NL>>

\* update_changelog with the section inserted before the last line that
\* starts with "## [", not the first
update_changelog_before_last_header(file, section) ==
    LET existing == read_existing_changelog(file)
        at == {i \in 1..Len(existing) : OccursAt(existing, VersionHeaderAfterNewline, i)}
    IN IF existing = <<>> THEN NewChangelog(section)
       ELSE IF at # {}
       THEN LET insert_pos == CHOOSE i \in at : \A j \in at : i >= j
            IN Slice(existing, 0, insert_pos) \o section
                   \o Slice(existing, insert_pos, Len(existing))
       ELSE LET lines == Split(existing, NL)
                header_end == header_end_of(lines)
            IN Join(<<NL>>, SubSeq(lines, 1, header_end)) \o <<NL, NL>> \o section
                   \o Join(<<NL>>, SubSeq(lines, header_end + 1, Len(lines)))

\* the text update_changelog writes to the file
update_changelog(file, section) ==
    LET existing == read_existing_changelog(file)
        at == {i \in 1..Len(existing) : OccursAt(existing, VersionHeaderAfterNewline, i)}
    IN IF existing = <<>> THEN NewChangelog(section)
       ELSE IF at # {}
       THEN LET insert_pos == CHOOSE i \in at : \A j \in at : i <= j
            IN Slice(existing, 0, insert_pos) \o section
                   \o Slice(existing, insert_pos, Len(existing))
       ELSE LET lines == Split(existing, NL)
                header_end == header_end_of(lines)
            IN Join(<<NL>>, SubSeq(lines, 1, header_end)) \o <<NL, NL>> \o section
                   \o Join(<<NL>>, SubSeq(lines, header_end + 1, Len(lines)))

(***************************************************************************)
(* The documents and sections update_changelog is run on.                  *)
(***************************************************************************)
DocLines == { <<"#", " ", "C", "h", "a", "n", "g", "e", "l", "o", "g">>, <<>>, <<"#", "#", " ", "[", "U", "n", "r", "e", "l", "e", "a", "s", "e", "d", "]">>, <<"#", "#", " ", "[", "1", ".", "0", ".", "0", "]", " ", "-", " ", "2", "0", "2", "5", "-", "0", "1", "-", "0", "1">>,
              <<"N", "o", "t", "e", "s">>, <<"#", "#", "#", " ", "A", "d", "d", "e", "d">> }

\* the documents of at most MaxDocLines lines, with and without a final newline
Documents ==
    {Join(<<NL>>, ls) : ls \in ListsUpTo(DocLines, MaxDocLines)}
        \cup {Join(<<NL>>, ls) \o <<NL>> : ls \in ListsUpTo(DocLines, MaxDocLines)}

ChangelogFiles == {NoFile} \cup {[exists |-> TRUE, content |-> d] : d \in Documents}

\* sections as generate_changelog_section returns them: of a breaking change
\* and a fix, and of a chore alone (the header only)
Sections ==
    { generate_changelog_section(<<"2", ".", "0", ".", "0">>, <<"2", "0", "2", "6", "-", "1", "1", "-", "0", "4">>, categorize_commits(
          <<Commit(<<"2", "a", "b", "c", "d", "e", "f">>, <<"f", "i", "x", "(", "c", "o", "r", "e", ")", ":", " ", "b">>, <<>>),
            Commit(<<"3", "a", "b", "c", "d", "e", "f">>, <<"f", "e", "a", "t", "!", ":", " ", "d", "r", "o", "p", " ", "f", "i", "e", "l", "d">>, <<>>)>>)),
      generate_changelog_section(<<"1", ".", "3", ".", "1">>, <<"2", "0", "2", "6", "-", "1", "1", "-", "0", "5">>, categorize_commits(
          <<Commit(<<"b", "a", "b", "c", "d", "e", "f">>, <<"c", "h", "o", "r", "e", ":", " ", "i">>, <<>>)>>)) }

(***************************************************************************)
(* Specification SpecUpdate: update_changelog called on a changelog file,  *)
(* up to MaxUpdates times.                                                 *)
(***************************************************************************)
InitUpdate ==
    /\ pc = "update"
    /\ changelog \in ChangelogFiles
    /\ updates = <<>>
    /\ cl_version = <<>>
    /\ today = <<>>
    /\ new_section = <<>>
    /\ VersionIdle
    /\ CommitsIdle
    /\ MainIdle

\* main: update_changelog(changelog_path, changelog_section)
UpdateChangelog ==
    /\ pc = "update"
    /\ Len(updates) < MaxUpdates
    /\ new_section' \in Sections
    /\ LET written == update_changelog(changelog, new_section')
       IN /\ changelog' = [exists |-> TRUE, content |-> written]
          /\ updates' = Append(updates, [existing |-> read_existing_changelog(changelog),
                                         new_section |-> new_section',
                                         new_content |-> written])
    /\ UNCHANGED <<pc, cl_version, today, versionVars, commitVars, mainVars>>

NextUpdate == UpdateChangelog

SpecUpdate == InitUpdate /\ [][NextUpdate]_vars

(***************************************************************************)
(* C8: the section generate_changelog_section returns is the version       *)
(* header followed by exactly one subsection for each non-empty bucket     *)
(* among breaking, features, fixes, performance, refactor, docs, tests,    *)
(* build, ci, in that order: the title of the bucket and one entry for     *)
(* each of its commits, in the bucket's order.  An empty bucket has no     *)
(* title, and the commits of the chore and other buckets are not in the    *)
(* section.                                                                *)
(***************************************************************************)
RenderedOrder ==
    <<"breaking", "features", "fixes", "performance", "refactor", "docs", "tests", "build", "ci">>

TitleOf(cat) == (CHOOSE k \in 1..Len(SectionMap) : SectionMap[k][1] = cat)

NonBlank(lines) == SelectSeq(lines, LAMBDA l : l # <<>>)

VersionHeader == <<"#", "#", " ", "[">> \o cl_version \o <<"]", " ", "-", " ">> \o today

\* the title and the entries of a bucket, or nothing when it is empty
ExpectedSubsection(cat) ==
    IF categories[cat] = <<>> THEN <<>>
    ELSE <<<<"#", "#", "#", " ">> \o SectionMap[TitleOf(cat)][2]>>
            \o [i \in 1..Len(categories[cat]) |-> format_commit_line(categories[cat][i])]

ExpectedLines ==
    <<VersionHeader>> \o Concat([k \in 1..Len(RenderedOrder) |-> ExpectedSubsection(RenderedOrder[k])])

SectionLines == Split(new_section, NL)

C8_SectionIsRenderedBucketsInOrder ==
    pc = "generated" =>
        /\ NonBlank(SectionLines) = ExpectedLines
        /\ Cardinality({i \in 1..Len(SectionLines) : StartsWith(SectionLines[i], <<"#", "#", "#", " ">>)})
               = Cardinality({k \in 1..Len(RenderedOrder) : categories[RenderedOrder[k]] # <<>>})
        /\ \A cat \in {"chore", "other"} : \A i \in 1..Len(categories[cat]) :
               \A l \in 1..Len(SectionLines) :
                   /\ ~Contains(SectionLines[l], categories[cat][i].hash)
                   /\ ~Contains(SectionLines[l], categories[cat][i].subject)

\* a fix, a chore and a ci commit: two subsections with empty buckets before,
\* between and after them, and a commit that is left out
C8_Witness ==
    /\ pc = "generated"
    /\ Len(categories.fixes) = 1
    /\ Len(categories.ci) = 1
    /\ Len(categories.chore) = 1
    /\ cl_commits[2] = categories.chore[1]
    /\ Len(NonBlank(SectionLines)) = 5

(***************************************************************************)
(* C9: when the existing document is not empty and has a line that starts  *)
(* with "## [", update_changelog writes the document with the new section  *)
(* inserted at the start of the first such line, also when that line is    *)
(* the first line of the document, and with every character of the         *)
(* existing document kept, in order, before and after the section (blank   *)
(* lines written just before the section are not counted against this).    *)
(***************************************************************************)
VersionHeaderStart == <<"#", "#", " ", "[">>

\* the 0-based offsets in doc at which a line begins
LineStarts(doc) == {0} \cup {i \in 1..(Len(doc) - 1) : doc[i] = NL}

\* the offsets at which a line that starts with "## [" begins
HeaderOffsets(doc) == {p \in LineStarts(doc) : OccursAt(doc, VersionHeaderStart, p + 1)}

FirstHeaderOffset(doc) == CHOOSE p \in HeaderOffsets(doc) : \A q \in HeaderOffsets(doc) : p <= q

C9_InsertedBeforeFirstHeader ==
    \A k \in 1..Len(updates) :
        LET u == updates[k]
        IN (u.existing # <<>> /\ HeaderOffsets(u.existing) # {}) =>
               \E gap \in 0..2 :
                   u.new_content = Slice(u.existing, 0, FirstHeaderOffset(u.existing))
                                       \o [i \in 1..gap |-> NL] \o u.new_section
                                       \o Slice(u.existing, FirstHeaderOffset(u.existing), Len(u.existing))

(***************************************************************************)
(* C10: when the existing document is not empty and has no line that       *)
(* starts with "## [", update_changelog writes the document with the new   *)
(* section after the leading preamble, the longest run of lines from the   *)
(* top that are blank or start with "#": the preamble lines come first,    *)
(* unchanged, then the section (after at most two line ends), then the     *)
(* remaining lines, unchanged.  This holds also when every line of the     *)
(* document is a preamble line.                                            *)
(***************************************************************************)
IsPreambleLine(line) == Strip(line) = <<>> \/ StartsWith(line, <<"#">>)

\* the number of lines of the leading preamble
PreambleLength(lines) ==
    CHOOSE n \in 0..Len(lines) :
        /\ \A i \in 1..n : IsPreambleLine(lines[i])
        /\ n < Len(lines) => ~IsPreambleLine(lines[n + 1])

C10_PlacedAfterPreamble ==
    \A k \in 1..Len(updates) :
        LET u == updates[k]
            lines == Split(u.existing, NL)
            n == PreambleLength(lines)
            preamble == Join(<<NL>>, SubSeq(lines, 1, n))
            rest == Join(<<NL>>, SubSeq(lines, n + 1, Len(lines)))
        IN (u.existing # <<>> /\ HeaderOffsets(u.existing) = {}) =>
               \E gap \in 0..2 :
                   u.new_content = preamble \o [i \in 1..gap |-> NL] \o u.new_section \o rest

(***************************************************************************)
(* C11: every commit line of the section shows the description without the *)
(* Conventional-Commit prefix.  For every commit of a rendered bucket      *)
(* (breaking included) whose subject is a type (one or more word           *)
(* characters), an optional (scope), an optional "!", a colon and a        *)
(* description, the section has the line "- ", the description, " ([hash]  *)
(* (../../commit/hash))", with nothing of the prefix left in it.           *)
(***************************************************************************)
\* the positions of the colon that ends a prefix type, (scope)?, !?, ":"
PrefixColons(s) ==
    {q \in 2..Len(s) :
        /\ s[q] = ":"
        /\ \E w \in 1..(q - 1) :
              /\ \A k \in 1..w : IsWord(s[k])
              /\ \E b \in w..(q - 1) :
                    /\ b = w \/ ScopeIn(s, w + 1, b)
                    /\ b = q - 1 \/ (b = q - 2 /\ s[q - 1] = "!")}

\* the subject after the prefix and the white space that follows its colon
Description(s) == LStrip(SubSeq(s, (CHOOSE q \in PrefixColons(s) : TRUE) + 1, Len(s)))

ShortReference(hash) == <<" ", "(", "[">> \o hash \o <<"]", "(", ".", ".", "/", ".", ".", "/", "c", "o", "m", "m", "i", "t", "/">> \o hash \o <<")", ")">>

C11_PrefixRemovedFromEveryLine ==
    pc = "generated" =>
        \A k \in 1..Len(RenderedOrder) : \A i \in 1..Len(categories[RenderedOrder[k]]) :
            LET commit == categories[RenderedOrder[k]][i]
            IN PrefixColons(commit.subject) # {} =>
                   \E l \in 1..Len(SectionLines) :
                       SectionLines[l] = <<"-", " ">> \o Description(commit.subject)
                                             \o ShortReference(commit.hash)

(***************************************************************************)
(* C12: round trip on an empty changelog.  When update_changelog is called *)
(* on a missing or empty file, the document it writes holds the generated  *)
(* section exactly once, unmodified, and reading the document back gives   *)
(* the version header of the section and its commit lines, in order.       *)
(* Reading back takes the first versioned section header and the commit    *)
(* lines under it, up to the next such header.                             *)
(* C12_RoundTripFirstHeader reads "versioned section header" as any line   *)
(* that starts with "## [", as update_changelog does;                      *)
(* C12_RoundTripFirstVersion leaves out the line "## [Unreleased]", which  *)
(* carries no version.                                                     *)
(***************************************************************************)
UnreleasedHeader == <<"#", "#", " ", "[", "U", "n", "r", "e", "l", "e", "a", "s", "e", "d", "]">>

IsSectionHeader(line) == StartsWith(line, VersionHeaderStart)

IsVersionHeader(line) == IsSectionHeader(line) /\ line # UnreleasedHeader

IsCommitLine(line) == StartsWith(line, <<"-", " ">>)

\* the 1-based numbers of the lines that are headers, Unreleased counted or not
HeaderLines(lines, unreleased) ==
    {i \in 1..Len(lines) :
        IF unreleased THEN IsSectionHeader(lines[i]) ELSE IsVersionHeader(lines[i])}

\* the first header of the document and the commit lines under it
ReadBack(doc, unreleased) ==
    LET lines == Split(doc, NL)
        heads == HeaderLines(lines, unreleased)
        first == CHOOSE i \in heads : \A j \in heads : i <= j
        later == {j \in heads : j > first}
        last == IF later = {} THEN Len(lines)
                ELSE (CHOOSE j \in later : \A h \in later : j <= h) - 1
    IN IF heads = {} THEN [header |-> <<>>, commit_lines |-> <<>>]
       ELSE [header |-> lines[first],
             commit_lines |-> SelectSeq(SubSeq(lines, first + 1, last), IsCommitLine)]

Occurrences(doc, text) == {i \in 1..Len(doc) : OccursAt(doc, text, i)}

RoundTrip(u, unreleased) ==
    u.existing = <<>> =>
        /\ Cardinality(Occurrences(u.new_content, u.new_section)) = 1
        /\ ReadBack(u.new_content, unreleased) = ReadBack(u.new_section, TRUE)
        /\ ReadBack(u.new_section, TRUE).header = Split(u.new_section, NL)[1]

ChangelogArgsSet ==
    [crate : {<<>>, CrateName}, workspace : BOOLEAN, preview : BOOLEAN, update : BOOLEAN]

\* the CHANGELOG.md of the run: missing, empty, or with one released version
MainChangelogFiles ==
    { NoFile,
      [exists |-> TRUE, content |-> <<>>],
      [exists |-> TRUE, content |-> <<"#", " ", "C", "h", "a", "n", "g", "e", "l", "o", "g", "\n", "\n", "#", "#", " ", "[", "1", ".", "0", ".", "0", "]", " ", "-", " ", "2", "0", "2", "5", "-", "0", "1", "-", "0", "1", "\n", "\n", "-", " ", "f", "i", "r", "s", "t", " ", "(", "a", "b", "c", ")", "\n">>] }

InitChangelogMain ==
    /\ pc = "changelog_start"
    /\ args \in ChangelogArgsSet
    /\ crate_dir \in BOOLEAN
    /\ (args.crate = <<>> => crate_dir = FALSE)
    /\ manifest = NoFile
    /\ exit_code = -1
    /\ report = NoReport
    /\ writes = <<>>
    /\ cl_version \in SectionVersions
    /\ today = <<>>
    /\ new_section = <<>>
    /\ changelog \in MainChangelogFiles
    /\ updates = <<>>
    /\ history \in MainHistories
    /\ git_ok \in BOOLEAN
    /\ commits = <<>>
    /\ analysis = [bump_type |-> "none", breakdown |-> <<>>]
    /\ cl_commits = <<>>
    /\ categories = <<>>
    /\ VersionIdle

\* lines 236-258: the usage check, the check of the crate directory and the
\* retrieval of the commits
ChangelogMainFetch ==
    /\ pc = "changelog_start"
    /\ IF args.crate = <<>> /\ ~args.workspace
       THEN Exit(1) /\ UNCHANGED cl_commits
       ELSE IF args.crate # <<>> /\ ~crate_dir
       THEN Exit(1) /\ UNCHANGED cl_commits
       ELSE /\ cl_commits' = changelog_get_commits_since_tag(history, git_ok)
            /\ pc' = "changelog_commits"
            /\ UNCHANGED exit_code
    /\ UNCHANGED <<history, git_ok, commits, analysis, categories, versionVars,
                   args, crate_dir, manifest, report, writes, docVars>>

\* lines 266-288: no commits ends the run; else the section is generated,
\* shown as a preview, and written with --update
ChangelogMainGenerate ==
    /\ pc = "changelog_commits"
    /\ IF cl_commits = <<>>
       THEN /\ Exit(0)
            /\ UNCHANGED <<categories, today, new_section, report, changelog, updates>>
       ELSE /\ categories' = categorize_commits(cl_commits)
            /\ today' \in Dates
            /\ new_section' = generate_changelog_section(cl_version, today', categories')
            /\ report' = [printed |-> args.preview \/ ~args.update]
            /\ IF args.update
               THEN LET written == update_changelog(changelog, new_section')
                    IN /\ changelog' = [exists |-> TRUE, content |-> written]
                       /\ updates' = Append(updates,
                                            [existing |-> read_existing_changelog(changelog),
                                             new_section |-> new_section',
                                             new_content |-> written])
               ELSE UNCHANGED <<changelog, updates>>
            /\ Exit(0)
    /\ UNCHANGED <<history, git_ok, commits, analysis, cl_commits, versionVars,
                   args, crate_dir, manifest, writes, cl_version>>

NextChangelogMain == ChangelogMainFetch \/ ChangelogMainGenerate

SpecChangelogMain == InitChangelogMain /\ [][NextChangelogMain]_vars

(***************************************************************************)
(* Specification SpecMains: one run of either script.                      *)
(***************************************************************************)
SpecMains ==
    (InitBumpMain \/ InitChangelogMain) /\ [][NextBumpMain \/ NextChangelogMain]_vars

(***************************************************************************)
(* C13: in a run of either script that gets as far as retrieving the       *)
(* commits, when the commit list is empty (nothing in the range, or the    *)
(* git command failed) the run ends with status 0, not 1, nothing is       *)
(* analysed or generated, and neither Cargo.toml nor CHANGELOG.md is       *)
(* written.                                                                *)
(***************************************************************************)
IsBumpRun == "apply" \in DOMAIN args

IsChangelogRun == "update" \in DOMAIN args

\* the command line and the files pass the checks made before the retrieval
CommitsRetrieved ==
    /\ args.crate # <<>> \/ args.workspace
    /\ args.crate # <<>> => crate_dir
    /\ (IsBumpRun /\ args.crate # <<>>) => manifest.exists

C13_EmptyHistoryIsNothingToDo ==
    (/\ pc = "exited"
     /\ CommitsRetrieved
     /\ \/ history = <<>>
        \/ ~git_ok
        \/ IsBumpRun /\ commits = <<>>
        \/ IsChangelogRun /\ cl_commits = <<>>) =>
        /\ exit_code = 0
        /\ commits = <<>> /\ cl_commits = <<>>
        /\ report = NoReport
        /\ new_section = <<>>
        /\ writes = <<>>
        /\ updates = <<>>
        /\ IsChangelogRun => changelog \in MainChangelogFiles
        /\ IsBumpRun => manifest \in Manifests

\* git fails on a range that holds commits, in a run with --apply and --bump
C13_Witness ==
    /\ pc = "exited"
    /\ IsBumpRun
    /\ CommitsRetrieved
    /\ ~git_ok
    /\ history # <<>>
    /\ args.apply
    /\ args.bump = "major"
    /\ exit_code = 0
    /\ writes = <<>>

(***************************************************************************)
(* C14: a run of bump-version.py writes Cargo.toml at most once, and only  *)
(* when --crate or --workspace was given, the commit list is not empty,    *)
(* the current version was read and parsed, the effective level (the       *)
(* forced one if given, else the computed one) is not none, and --apply    *)
(* was given; the version of the manifest is then bump_version(current     *)
(* version, effective level).  In every other run the manifest is as it    *)
(* was.                                                                    *)
(***************************************************************************)
EffectiveLevel == IF args.bump # "unset" THEN args.bump ELSE analysis.bump_type

\* the version a reader of the manifest finds in it
VersionIn(m) ==
    LET current == get_current_version(m)
    IN IF current.ok /\ current.value.string THEN current.value.text ELSE <<>>

C14_ManifestWrittenOnceWithBumpedVersion ==
    (pc = "exited" /\ IsBumpRun) =>
        /\ Len(writes) <= 1
        /\ writes # <<>> =>
              /\ args.crate # <<>> \/ args.workspace
              /\ commits # <<>>
              /\ version # <<>>
              /\ bump_version(version, EffectiveLevel).ok
              /\ EffectiveLevel # "none"
              /\ args.apply
              /\ exit_code = 0
              /\ writes[1].new_version = bump_version(version, EffectiveLevel).value
              /\ manifest.content = writes[1].content
              /\ VersionIn(manifest) = bump_version(version, EffectiveLevel).value
        /\ writes = <<>> => manifest \in Manifests

(***************************************************************************)
(* C15: after any sequence of update_changelog calls on one file, whatever *)
(* the file was at the start, every section inserted so far is in the      *)
(* document unmodified, the sections are newest first (the section of a    *)
(* later call lies wholly before the sections of all earlier calls), and   *)
(* no line the file had at the start is lost: its lines are still there,   *)
(* in their order.                                                         *)
(***************************************************************************)
Latest(positions) == CHOOSE p \in positions : \A q \in positions : p >= q

RECURSIVE PlacedNewestFirst(_, _, _)
\* the sections, in the order of the calls, each occur in doc before
\* position limit, and each one before the one of the call before it
PlacedNewestFirst(doc, sections, limit) ==
    IF sections = <<>> THEN TRUE
    ELSE LET fits == {p \in Occurrences(doc, Head(sections)) :
                         p + Len(Head(sections)) <= limit}
         IN fits # {} /\ PlacedNewestFirst(doc, Tail(sections), Latest(fits))

InsertedSections == [k \in 1..Len(updates) |-> updates[k].new_section]

C15_SectionsKeptNewestFirst ==
    updates # <<>> =>
        /\ changelog.content = updates[Len(updates)].new_content
        /\ PlacedNewestFirst(changelog.content, InsertedSections, Len(changelog.content) + 1)
        /\ IsSubsequence(Split(updates[1].existing, NL), Split(changelog.content, NL))
        /\ \A k \in 2..Len(updates) : updates[k].existing = updates[k - 1].new_content

\* two different sections inserted into a document that had a preamble, a
\* released version and its notes
C15_Witness ==
    /\ Len(updates) = 2
    /\ updates[1].new_section # updates[2].new_section
    /\ updates[1].existing = <<"#", " ", "C", "h", "a", "n", "g", "e", "l", "o", "g", "\n", "#", "#", " ", "[", "1", ".", "0", ".", "0", "]", " ", "-", " ", "2", "0", "2", "5", "-", "0", "1", "-", "0", "1", "\n", "N", "o", "t", "e", "s", "\n">>
    /\ Cardinality(HeaderOffsets(changelog.content)) = 3
    /\ OccursAt(changelog.content, updates[2].new_section \o updates[1].new_section,
                Len(<<"#", " ", "C", "h", "a", "n", "g", "e", "l", "o", "g", "\n">>) + 1)

====
